---- MODULE Spec2Model ----
(***************************************************************************)
(* signalInputsTransform (compiler-cli, jit_transforms/initializer_api_    *)
(* transforms/input_function.ts): the per-member rewrite that prepends a   *)
(* synthesized `@Input` decorator to class fields initialized with         *)
(* input() / input.required().                                             *)
(*                                                                         *)
(* AST nodes are records.  Every node that takes part in a reference       *)
(* comparison carries an `id`: <<"parsed", k, role>> for a node of the     *)
(* parse tree of the k-th member, <<"synth", n, role>> for a node the      *)
(* factory created during the n-th allocation, so record equality is       *)
(* reference identity.                                                     *)
(***************************************************************************)
EXTENDS Integers, Sequences, FiniteSets, TLC

\* Members of one file the caller hands to the transform, one after another.
NumMembers == 2
\* Times the transform is applied to one member (its own output fed back).
MaxApply == 2

CoreModule == "@angular/core"

\* JavaScript `undefined` (an absent child node).
NoNode == [kind |-> "undefined"]
\* JavaScript `null`: an absent initializer value, and the parser's "no match".
Null == [kind |-> "null"]

-----------------------------------------------------------------------------
(* Node constructors *)

Identifier(text, id) ==
  [kind |-> "Identifier", text |-> text, id |-> id, original |-> NoNode]

StringLiteral(text) == [kind |-> "StringLiteral", text |-> text]

TrueLiteral == [kind |-> "TrueKeyword"]

FalseLiteral == [kind |-> "FalseKeyword"]

\* member.modifiers is either undefined or a node array.
NoModifiers == [present |-> FALSE, nodes |-> <<>>]

NodeArray(nodes) == [present |-> TRUE, nodes |-> nodes]

\* `member.modifiers ?? []`
ModifiersOrEmpty(member) ==
  IF member.modifiers.present THEN member.modifiers.nodes ELSE <<>>

\* ts.setOriginalNode(node, original)
setOriginalNode(node, original) == [node EXCEPT !.original = original]

-----------------------------------------------------------------------------
(* The members the caller may visit *)

NameTexts == {"name", "id"}

\* A pre-existing decorator `@callee()` on a member.
ParsedDecorator(k, role, callee) ==
  [kind |-> "Decorator", id |-> <<"parsed", k, role>>,
   expression |-> [kind |-> "CallExpression", expression |-> callee,
                   typeArguments |-> NoNode, arguments |-> <<>>]]

Keyword(k, text) == [kind |-> "Keyword", text |-> text, id |-> <<"parsed", k, text>>]

\* `@HostBinding()` and `@Input()` are named imports of @angular/core;
\* `@other.Input()` is an unrelated decorator that happens to be called Input.
HostBindingDecorator(k) ==
  ParsedDecorator(k, "decHostBinding", Identifier("HostBinding", <<"parsed", k, "HostBinding">>))

CoreInputDecorator(k) ==
  ParsedDecorator(k, "decInput", Identifier("Input", <<"parsed", k, "Input">>))

OtherInputDecorator(k) ==
  ParsedDecorator(k, "decOtherInput",
    [kind |-> "PropertyAccessExpression", id |-> <<"parsed", k, "other.Input">>,
     expression |-> Identifier("other", <<"parsed", k, "other">>),
     name |-> Identifier("Input", <<"parsed", k, "otherInput">>)])

ModifierLists(k) ==
  { NoModifiers,
    NodeArray(<<HostBindingDecorator(k), Keyword(k, "readonly")>>),
    NodeArray(<<CoreInputDecorator(k)>>),
    NodeArray(<<Keyword(k, "readonly"), OtherInputDecorator(k)>>) }

CallExpression(k, callee, alias, transform) ==
  [kind |-> "CallExpression", id |-> <<"parsed", k, "initializer">>,
   callee |-> callee, alias |-> alias, transform |-> transform]

\* No initializer, an unrelated call, and the input()/input.required() shapes
\* with and without the `alias` and `transform` options.
Initializers(k) ==
  { NoNode,
    CallExpression(k, "computeFoo", NoNode, NoNode),
    CallExpression(k, "input", NoNode, NoNode),
    CallExpression(k, "input", StringLiteral("x"),
                   Identifier("parseInt", <<"parsed", k, "transform">>)),
    CallExpression(k, "input.required", NoNode, NoNode),
    CallExpression(k, "input.required", StringLiteral("x"), NoNode) }

\* The parser yields at most one of `?` and `!` after a property name.
Tokens(k) ==
  { <<NoNode, NoNode>>,
    <<[kind |-> "QuestionToken", id |-> <<"parsed", k, "?">>], NoNode>>,
    <<NoNode, [kind |-> "ExclamationToken", id |-> <<"parsed", k, "!">>]>> }

Types(k) == { NoNode, [kind |-> "TypeReference", id |-> <<"parsed", k, "type">>] }

Members(k) ==
  { [kind |-> "PropertyDeclaration", id |-> <<"parsed", k, "member">>,
     modifiers |-> mods,
     name |-> Identifier(text, <<"parsed", k, "name">>),
     questionToken |-> tok[1], exclamationToken |-> tok[2],
     type |-> type, initializer |-> init] :
    mods \in ModifierLists(k), text \in NameTexts, tok \in Tokens(k),
    type \in Types(k), init \in Initializers(k) }

\* The class decorator that triggered the transform, as the reflection host
\* describes it: `@Component` or `@core.Component`.
ClassDecorators ==
  { [name |-> "Component",
     identifier |-> Identifier("Component", <<"parsed", 0, "Component">>)],
    [name |-> "Component",
     identifier |->
       [kind |-> "PropertyAccessExpression", id |-> <<"parsed", 0, "core.Component">>,
        expression |-> Identifier("core", <<"parsed", 0, "core">>),
        name |-> Identifier("Component", <<"parsed", 0, "Component">>)]] }

-----------------------------------------------------------------------------
(* Collaborators *)

\* Module a local name of the file is imported from; "i0" is the namespace
\* alias the import manager emits.
FileImports ==
  [n \in {"Input", "HostBinding", "Component", "core", "i0"} |-> CoreModule]
    @@ ("other" :> "other-lib")

ImportedFrom(callee) ==
  LET local == IF callee.kind = "Identifier" THEN callee.text ELSE callee.expression.text
  IN IF local \in DOMAIN FileImports THEN FileImports[local] ELSE "unresolved"

\* The reflection host's description of one decorator node.
ReflectDecorator(node) ==
  LET callee == node.expression.expression
  IN [name |-> IF callee.kind = "Identifier" THEN callee.text ELSE callee.name.text,
      from |-> ImportedFrom(callee),
      node |-> node]

Decorators(nodes) ==
  LET decs == SelectSeq(nodes, LAMBDA m : m.kind = "Decorator")
  IN [i \in 1..Len(decs) |-> ReflectDecorator(decs[i])]

\* host.getDecoratorsOfDeclaration(member): null when the member has none.
getDecoratorsOfDeclaration(member) ==
  LET ds == Decorators(ModifiersOrEmpty(member))
  IN IF Len(ds) = 0 THEN [present |-> FALSE, list |-> <<>>]
     ELSE [present |-> TRUE, list |-> ds]

isAngularDecorator(d, name, isCore) ==
  IF isCore THEN d.name = name
  ELSE d.from = CoreModule /\ d.name = name

\* tryParseSignalInputMapping({name, value}, host, isCore)
tryParseSignalInputMapping(name, value, isCore) ==
  IF value = Null THEN Null
  ELSE IF value.callee \notin {"input", "input.required"} THEN Null
  ELSE [kind |-> "InputMapping",
        classPropertyName |-> name,
        bindingPropertyName |-> IF value.alias = NoNode THEN name ELSE value.alias.text,
        required |-> (value.callee = "input.required"),
        transform |-> value.transform]

EmptyImportManager == [specifierToIdentifier |-> <<>>, nextIndex |-> 0]

\* importManager.generateNamespaceImport(moduleName): registers the namespace
\* import on first use and hands out the same identifier afterwards.
generateNamespaceImport(importManager, moduleName) ==
  LET manager ==
        IF moduleName \in DOMAIN importManager.specifierToIdentifier THEN importManager
        ELSE [specifierToIdentifier |->
                importManager.specifierToIdentifier @@
                (moduleName :> Identifier("i" \o ToString(importManager.nextIndex),
                                          <<"import", importManager.nextIndex, moduleName>>)),
              nextIndex |-> importManager.nextIndex + 1]
  IN [manager |-> manager, identifier |-> manager.specifierToIdentifier[moduleName],
      calls |-> 1]

\* factory.updatePropertyDeclaration(node, modifiers, name,
\* questionOrExclamationToken, type, initializer): a new node is created
\* (the modifiers array differs), keeping the token in the slot of its kind.
updatePropertyDeclaration(node, modifiers, name, questionOrExclamationToken, type, initializer, n) ==
  [kind |-> "PropertyDeclaration", id |-> <<"synth", n, "member">>,
   modifiers |-> NodeArray(modifiers),
   name |-> name,
   questionToken |-> IF questionOrExclamationToken.kind = "QuestionToken"
                     THEN questionOrExclamationToken ELSE NoNode,
   exclamationToken |-> IF questionOrExclamationToken.kind = "ExclamationToken"
                        THEN questionOrExclamationToken ELSE NoNode,
   type |-> type, initializer |-> initializer]

-----------------------------------------------------------------------------
(* signalInputsTransform *)

\* What one invocation did: the declaration it returned (or that it threw),
\* the import manager afterwards, and how often it called the import manager
\* and the parser.
Returned(result, importManager, importCalls, parserCalls) ==
  [threw |-> FALSE, result |-> result, importManager |-> importManager,
   importCalls |-> importCalls, parserCalls |-> parserCalls]

Thrown(importManager, importCalls, parserCalls) ==
  [threw |-> TRUE, result |-> NoNode, importManager |-> importManager,
   importCalls |-> importCalls, parserCalls |-> parserCalls]

hasInputDecorator_every(decorators, isCore) ==
  /\ decorators.present
  /\ \A i \in 1..Len(decorators.list) :
        isAngularDecorator(decorators.list[i], "Input", isCore)

hasInputDecorator_ignoresIsCore(decorators, isCore) ==
  /\ decorators.present
  /\ \E i \in 1..Len(decorators.list) :
        isAngularDecorator(decorators.list[i], "Input", FALSE)

\* host.getDecoratorsOfDeclaration(member)?.some(d => isAngularDecorator(d, 'Input', isCore))
hasInputDecorator(decorators, isCore) ==
  /\ decorators.present
  /\ \E i \in 1..Len(decorators.list) :
        isAngularDecorator(decorators.list[i], "Input", isCore)

\* tryParseSignalInputMapping({name: member.name.text, value: member.initializer ?? null}, host, isCore)
inputMappingOf(member, isCore) ==
  tryParseSignalInputMapping(
    member.name.text,
    IF member.initializer = NoNode THEN Null ELSE member.initializer,
    isCore)

fields_keepsTransform(inputMapping, n) ==
  << <<"isSignal", TrueLiteral>>,
     <<"alias", StringLiteral(inputMapping.bindingPropertyName)>>,
     <<"required", IF inputMapping.required THEN TrueLiteral ELSE FalseLiteral>>,
     <<"transform", IF inputMapping.transform = NoNode
                    THEN Identifier("undefined", <<"synth", n, "undefined">>)
                    ELSE inputMapping.transform>> >>

\* The `fields` record; Object.entries enumerates its keys in insertion order.
fields(inputMapping, n) ==
  << <<"isSignal", TrueLiteral>>,
     <<"alias", StringLiteral(inputMapping.bindingPropertyName)>>,
     <<"required", IF inputMapping.required THEN TrueLiteral ELSE FalseLiteral>>,
     <<"transform", Identifier("undefined", <<"synth", n, "undefined">>)>> >>

classDecoratorIdentifier_name(decorator) ==
  IF decorator.identifier.kind = "Identifier" THEN decorator.identifier
  ELSE decorator.identifier.name

\* ts.isIdentifier(decorator.identifier) ? decorator.identifier : decorator.identifier.expression
classDecoratorIdentifier(decorator) ==
  IF decorator.identifier.kind = "Identifier" THEN decorator.identifier
  ELSE decorator.identifier.expression

namespaceImport_unregistered(importManager) ==
  [manager |-> importManager,
   identifier |-> Identifier("i0", <<"synth", 0, "i0">>),
   calls |-> 0]

\* importManager.generateNamespaceImport('@angular/core')
namespaceImport(importManager) ==
  generateNamespaceImport(importManager, CoreModule)

\* factory.createDecorator(factory.createCallExpression(
\*   factory.createPropertyAccessExpression(ns, Input), undefined,
\*   [factory.createAsExpression(factory.createObjectLiteralExpression(...), any)]))
createInputDecorator(ns, entries, original, n) ==
  [kind |-> "Decorator", id |-> <<"synth", n, "decorator">>,
   expression |->
     [kind |-> "CallExpression",
      expression |->
        [kind |-> "PropertyAccessExpression", id |-> <<"synth", n, "access">>,
         expression |-> ns,
         name |-> setOriginalNode(Identifier("Input", <<"synth", n, "Input">>), original)],
      typeArguments |-> NoNode,
      arguments |->
        << [kind |-> "AsExpression",
            expression |->
              [kind |-> "ObjectLiteralExpression",
               properties |->
                 [i \in 1..Len(entries) |->
                    [kind |-> "PropertyAssignment",
                     name |-> entries[i][1], initializer |-> entries[i][2]]]],
            type |-> [kind |-> "AnyKeyword"]] >>]]

\* The part of the transform after both early returns.
rewriteMember(member, inputMapping, importManager, decorator, parserCalls, n) ==
  LET ns == namespaceImport(importManager)
      newDecorator == createInputDecorator(ns.identifier, fields(inputMapping, n),
                                           classDecoratorIdentifier(decorator), n)
  IN Returned(
       updatePropertyDeclaration(
         member,
         <<newDecorator>> \o ModifiersOrEmpty(member),
         member.name,
         member.questionToken,
         member.type,
         member.initializer,
         n),
       ns.manager, ns.calls, parserCalls)

\* `=== undefined` instead of `=== null`: a null mapping is dereferenced.
signalInputsTransform_undefinedCheck(member, importManager, decorator, isCore, n) ==
  IF hasInputDecorator(getDecoratorsOfDeclaration(member), isCore)
  THEN Returned(member, importManager, 0, 0)
  ELSE LET inputMapping == inputMappingOf(member, isCore)
       IN IF inputMapping = Null
          THEN Thrown(importManager, 0, 1)
          ELSE rewriteMember(member, inputMapping, importManager, decorator, 1, n)

\* `.some` called without optional chaining on the host's answer.
signalInputsTransform_noOptionalChain(member, importManager, decorator, isCore, n) ==
  IF ~getDecoratorsOfDeclaration(member).present
  THEN Thrown(importManager, 0, 0)
  ELSE IF hasInputDecorator(getDecoratorsOfDeclaration(member), isCore)
  THEN Returned(member, importManager, 0, 0)
  ELSE LET inputMapping == inputMappingOf(member, isCore)
       IN IF inputMapping = Null
          THEN Returned(member, importManager, 0, 1)
          ELSE rewriteMember(member, inputMapping, importManager, decorator, 1, n)

\* Members are decorated only until the namespace import exists.
signalInputsTransform_onlyFirstImport(member, importManager, decorator, isCore, n) ==
  IF hasInputDecorator(getDecoratorsOfDeclaration(member), isCore)
  THEN Returned(member, importManager, 0, 0)
  ELSE LET inputMapping == inputMappingOf(member, isCore)
       IN IF inputMapping = Null
             \/ CoreModule \in DOMAIN importManager.specifierToIdentifier
          THEN Returned(member, importManager, 0, 1)
          ELSE rewriteMember(member, inputMapping, importManager, decorator, 1, n)

\* The namespace import and the input mapping are computed before the checks.
signalInputsTransform_eager(member, importManager, decorator, isCore, n) ==
  LET ns == namespaceImport(importManager)
      inputMapping == inputMappingOf(member, isCore)
  IN IF hasInputDecorator(getDecoratorsOfDeclaration(member), isCore)
     THEN Returned(member, ns.manager, ns.calls, 1)
     ELSE IF inputMapping = Null
          THEN Returned(member, ns.manager, ns.calls, 1)
          ELSE rewriteMember(member, inputMapping, importManager, decorator, 1, n)

signalInputsTransform(member, importManager, decorator, isCore, n) ==
  IF hasInputDecorator(getDecoratorsOfDeclaration(member), isCore)
  THEN Returned(member, importManager, 0, 0)
  ELSE LET inputMapping == inputMappingOf(member, isCore)
       IN IF inputMapping = Null
          THEN Returned(member, importManager, 0, 1)
          ELSE rewriteMember(member, inputMapping, importManager, decorator, 1, n)

-----------------------------------------------------------------------------
(* The state machine: one file, its members visited one after another *)

VARIABLES
  isCore,            \* the isCore flag of the compilation
  decorator,         \* the class decorator that triggered the transform
  importManager,     \* the file's import manager
  managerBefore,     \* the import manager on entry to the last invocation
  importCalls,       \* calls of generateNamespaceImport made by the last invocation
  parserCalls,       \* calls of tryParseSignalInputMapping made by the last invocation
  visited,           \* members handed to the transform so far
  orig,              \* the current member as parsed
  prev,              \* the declaration passed to the last invocation
  decl,              \* the current declaration of the member (the last result)
  first,             \* the result of the first invocation on the member
  applied,           \* invocations on the current member
  threw,             \* the last invocation threw
  rewritten,         \* invocations of this file that returned a new declaration
  nsUsed,            \* namespace identifiers the synthesized decorators refer to
  nextId             \* the factory's allocation counter

vars == <<isCore, decorator, importManager, managerBefore, importCalls, parserCalls,
          visited, orig, prev, decl, first, applied, threw, rewritten, nsUsed, nextId>>

Init ==
  /\ isCore \in BOOLEAN
  /\ decorator \in ClassDecorators
  /\ importManager = EmptyImportManager
  /\ managerBefore = EmptyImportManager
  /\ importCalls = 0
  /\ parserCalls = 0
  /\ visited = 1
  /\ orig \in Members(1)
  /\ prev = NoNode
  /\ decl = orig
  /\ first = NoNode
  /\ applied = 0
  /\ threw = FALSE
  /\ rewritten = 0
  /\ nsUsed = {}
  /\ nextId = 1

\* The namespace expression of the decorator a rewrite put in front.
NamespaceOf(declaration) ==
  declaration.modifiers.nodes[1].expression.expression.expression

\* One invocation of signalInputsTransform on the member's current declaration.
Transform ==
  /\ applied < MaxApply
  /\ ~threw
  /\ LET out == signalInputsTransform(decl, importManager, decorator, isCore, nextId)
         new == IF out.threw THEN decl ELSE out.result
     IN /\ prev' = decl
        /\ decl' = new
        /\ first' = IF applied = 0 THEN new ELSE first
        /\ threw' = out.threw
        /\ managerBefore' = importManager
        /\ importManager' = out.importManager
        /\ importCalls' = out.importCalls
        /\ parserCalls' = out.parserCalls
        /\ rewritten' = IF new # decl THEN rewritten + 1 ELSE rewritten
        /\ nsUsed' = IF new # decl THEN nsUsed \cup {NamespaceOf(new)} ELSE nsUsed
        /\ nextId' = IF new # decl THEN nextId + 1 ELSE nextId
  /\ applied' = applied + 1
  /\ UNCHANGED <<isCore, decorator, visited, orig>>

\* The caller moves on to the next candidate member of the class.
NextMember ==
  /\ applied >= 1
  /\ ~threw
  /\ visited < NumMembers
  /\ visited' = visited + 1
  /\ orig' \in Members(visited + 1)
  /\ decl' = orig'
  /\ prev' = NoNode
  /\ first' = NoNode
  /\ applied' = 0
  /\ importCalls' = 0
  /\ parserCalls' = 0
  /\ managerBefore' = importManager
  /\ UNCHANGED <<isCore, decorator, importManager, threw, rewritten, nsUsed, nextId>>

Next == Transform \/ NextMember

Spec == Init /\ [][Next]_vars

-----------------------------------------------------------------------------
(* Properties *)

\* The last invocation returned a declaration other than the one it was given.
Rewrote == applied >= 1 /\ ~threw /\ decl # prev

\* The host reports, for this declaration, a decorator that the identity test
\* accepts as Input under the file's isCore flag.
HostReportsInput(declaration) ==
  LET ds == getDecoratorsOfDeclaration(declaration)
  IN ds.present /\ \E i \in 1..Len(ds.list) : isAngularDecorator(ds.list[i], "Input", isCore)

\* The parser has nothing to recognize, or returns null.
ParserDeclines(declaration) ==
  \/ declaration.initializer = NoNode
  \/ tryParseSignalInputMapping(declaration.name.text, declaration.initializer, isCore)
       = Null

IsSynthesizedInputDecorator(node) ==
  /\ node.kind = "Decorator"
  /\ node.id[1] = "synth"
  /\ node.expression.kind = "CallExpression"
  /\ node.expression.expression.kind = "PropertyAccessExpression"
  /\ node.expression.expression.name.text = "Input"

SynthesizedDecorators(declaration) ==
  SelectSeq(ModifiersOrEmpty(declaration), IsSynthesizedInputDecorator)

\* The decorator a rewrite put in front, and the parts of it.
NewDecoratorOf(declaration) == declaration.modifiers.nodes[1]

CalleeOf(declaration) == NewDecoratorOf(declaration).expression.expression

ArgumentsOf(declaration) == NewDecoratorOf(declaration).expression.arguments

\* C1: applying the transform again to the declaration it returned yields that
\* same declaration; a member never carries two synthesized Input decorators.
C1_Idempotent ==
  /\ applied >= 2 => (~threw /\ decl = first)
  /\ Len(SynthesizedDecorators(decl)) <= 1

C1_Witness == applied >= 2 /\ first # orig /\ decl = first

\* C2: a member without initializer, or whose initializer the parser does not
\* recognize, is returned as the very same node, with no decorator added.
C2_UnrecognizedUnchanged ==
  (applied >= 1 /\ ParserDeclines(prev)) => (~threw /\ decl = prev)

C2_Witness ==
  /\ applied >= 1
  /\ prev.initializer # NoNode
  /\ ParserDeclines(prev)
  /\ parserCalls = 1
  /\ decl = prev

\* C3: a member for which the host reports an Input decorator is returned
\* unchanged, whatever its initializer.
C3_DecoratedUnchanged ==
  (applied >= 1 /\ HostReportsInput(prev)) => (~threw /\ decl = prev)

C3_Witness ==
  /\ applied >= 1
  /\ prev = orig
  /\ HostReportsInput(prev)
  /\ ~ParserDeclines(prev)
  /\ decl = prev

\* C4: the object literal of the synthesized decorator has exactly the four
\* properties isSignal, alias, required, transform, in this order, with
\* isSignal true, alias the binding property name, required the parsed flag
\* and transform the identifier `undefined`, whatever transform was parsed.
C4_MetadataFields ==
  Rewrote =>
    LET mapping == tryParseSignalInputMapping(prev.name.text, prev.initializer, isCore)
        props == ArgumentsOf(decl)[1].expression.properties
    IN /\ Len(props) = 4
       /\ \A i \in 1..4 : props[i].kind = "PropertyAssignment"
       /\ <<props[1].name, props[2].name, props[3].name, props[4].name>>
            = <<"isSignal", "alias", "required", "transform">>
       /\ props[1].initializer = TrueLiteral
       /\ props[2].initializer = StringLiteral(mapping.bindingPropertyName)
       /\ props[3].initializer = IF mapping.required THEN TrueLiteral ELSE FalseLiteral
       /\ props[4].initializer.kind = "Identifier"
       /\ props[4].initializer.text = "undefined"

C4_Witness ==
  /\ Rewrote
  /\ prev.initializer.transform # NoNode
  /\ prev.initializer.alias = StringLiteral("x")
  /\ ArgumentsOf(decl)[1].expression.properties[2].initializer = StringLiteral("x")

\* C5: a rewritten declaration has the new decorator followed by the member's
\* modifiers in their order, the same name, question token, type and
\* initializer nodes, and no other field altered.
C5_DeclarationUpdater ==
  Rewrote =>
    /\ decl.kind = prev.kind
    /\ decl.modifiers.present
    /\ IsSynthesizedInputDecorator(Head(decl.modifiers.nodes))
    /\ Tail(decl.modifiers.nodes) = ModifiersOrEmpty(prev)
    /\ decl.name = prev.name
    /\ decl.questionToken = prev.questionToken
    /\ decl.type = prev.type
    /\ decl.initializer = prev.initializer
    /\ decl.exclamationToken = prev.exclamationToken

C7_OneNamespaceImport ==
  rewritten >= 1 =>
    /\ DOMAIN importManager.specifierToIdentifier = {CoreModule}
    /\ importManager.nextIndex = 1
    /\ nsUsed = {importManager.specifierToIdentifier[CoreModule]}

C7_Witness == rewritten >= 2 /\ visited >= 2

DecoratorShape ==
  /\ NewDecoratorOf(decl).kind = "Decorator"
  /\ NewDecoratorOf(decl).expression.kind = "CallExpression"
  /\ CalleeOf(decl).kind = "PropertyAccessExpression"
  /\ CoreModule \in DOMAIN importManager.specifierToIdentifier
  /\ CalleeOf(decl).expression = importManager.specifierToIdentifier[CoreModule]
  /\ CalleeOf(decl).name.kind = "Identifier"
  /\ CalleeOf(decl).name.text = "Input"
  /\ Len(ArgumentsOf(decl)) = 1
  /\ ArgumentsOf(decl)[1].kind = "AsExpression"
  /\ ArgumentsOf(decl)[1].type = [kind |-> "AnyKeyword"]
  /\ ArgumentsOf(decl)[1].expression.kind = "ObjectLiteralExpression"

\* C8 (as claimed): the new Input identifier's original node is the triggering
\* decorator's identifier, bare or qualified, and the decorator has the shape
\* <namespaceImport>.Input(<objectLiteral> as any).
C8_OriginalIsDecoratorIdentifier ==
  Rewrote =>
    /\ CalleeOf(decl).name.original = decorator.identifier
    /\ DecoratorShape

\* C8 (amended): the original node is the triggering decorator's identifier
\* when that is a bare identifier, and the left-hand (namespace) identifier of
\* the property access when it is qualified; the shape is as claimed.
C8_OriginalIsLeftmostIdentifier ==
  Rewrote =>
    /\ CalleeOf(decl).name.original =
         IF decorator.identifier.kind = "Identifier" THEN decorator.identifier
         ELSE decorator.identifier.expression
    /\ CalleeOf(decl).name.original.kind = "Identifier"
    /\ DecoratorShape

C8_Witness ==
  /\ Rewrote
  /\ decorator.identifier.kind = "PropertyAccessExpression"
  /\ CalleeOf(decl).name.original.text = "core"

\* C9: the declaration produced for a member is what the transform produces
\* for that member alone, with an import manager no other member has used (up
\* to the identity of the nodes the factory creates), whichever members of the
\* file were transformed before it.
C9_OrderIndependent ==
  applied >= 1 =>
    /\ ~threw
    /\ first = signalInputsTransform(orig, EmptyImportManager, decorator, isCore,
                                     first.id[2]).result

C9_Witness ==
  /\ visited >= 2
  /\ applied >= 1
  /\ first # orig
  /\ rewritten >= 2

\* C10: an invocation that returns its member unchanged makes no call to the
\* import manager and leaves its state as it was; while no member has been
\* rewritten no namespace import is registered; the parser is not consulted
\* for a member that already carries the Input decorator.
C10_NoCollaboratorCalls ==
  /\ (applied >= 1 /\ ~threw /\ decl = prev) =>
       (importCalls = 0 /\ importManager = managerBefore)
  /\ rewritten = 0 => importManager = EmptyImportManager
  /\ (applied >= 1 /\ HostReportsInput(prev)) => parserCalls = 0

C10_Witness ==
  /\ applied >= 1
  /\ HostReportsInput(prev)
  /\ ~ParserDeclines(prev)
  /\ decl = prev
  /\ importManager = EmptyImportManager
  /\ visited >= 2

====
